---- MODULE Spec2Model ----
(***************************************************************************)
(* Model of the central-slice decoder (FTSliceDecoder), the latent         *)
(* concatenation of HetVAE, the SO(3) reparameterization                    *)
(* (SO3reparameterize.sampleSO3) of lib-python/models.py and the per-slice *)
(* volume evaluation (eval_volume) of bnb_het.py.                           *)
(*                                                                         *)
(* Tensors are functions over 0..n-1 (a row index), index arrays are       *)
(* sequences of 0-based pixel indices.  Coordinates are kept exact by      *)
(* scaling the lattice by D: np.linspace(-1,1,D,endpoint=False)[c] is      *)
(* (2c-D)/D and is held as the integer 2c-D.  Rotations are the signed      *)
(* permutation matrices, which keep scaled coordinates integral.           *)
(***************************************************************************)
EXTENDS Integers, Sequences, FiniteSets, TLC

\* ---------------------------------------------------------------- bounds
MaxD == 6
MaxZdim == 2
MaxB == 2
MaxC == 2
MaxEpochs == 2
MaxBatches == 2
MaxCheckpoint == 2

\* ------------------------------------------------------- tensor helpers
Abs(x) == IF x < 0 THEN -x ELSE x

\* np.arange(start, stop, step), step > 0
Arange(start, stop, step) ==
  LET n == IF stop > start THEN (stop - start + step - 1) \div step ELSE 0
  IN  [k \in 1..n |-> start + (k - 1) * step]

\* np.arange(start, stop, -1): start, start-1, ..., stop+1
ArangeDown(start, stop) ==
  LET n == IF start > stop THEN start - stop ELSE 0
  IN  [k \in 1..n |-> start - (k - 1)]

\* s[:-n] of Python (s[:-0] is s[:0], the empty array)
DropLast(s, n) ==
  IF n = 0 THEN << >>
  ELSE IF Len(s) > n THEN SubSeq(s, 1, Len(s) - n) ELSE << >>

\* s[n:]
DropFirst(s, n) == IF Len(s) > n THEN SubSeq(s, n + 1, Len(s)) ELSE << >>

\* s[::-1]
Reverse(s) == [k \in 1..Len(s) |-> s[Len(s) + 1 - k]]

\* i, j = np.meshgrid(np.arange(1,D), np.arange(r0,r1)); (j*D+i).ravel()
MeshRavel(D, r0, r1) ==
  LET nc == D - 1
      nr == IF r1 > r0 THEN r1 - r0 ELSE 0
  IN  IF nc <= 0 THEN << >>
      ELSE [k \in 1..(nr * nc) |->
              (r0 + ((k - 1) \div nc)) * D + (1 + ((k - 1) % nc))]

Range(s) == {s[k] : k \in 1..Len(s)}

\* ------------------------------------------- FTSliceDecoder.__init__
HalfD(D) == D \div 2

Center(D) == HalfD(D) * D + HalfD(D)

Extra(D) == Arange((HalfD(D) + 1) * D, D * D, D)

AllEval(D) == Arange(0, Center(D) + 1, 1) \o Extra(D)

Top(D) == DropLast(MeshRavel(D, 1, HalfD(D) + 1), HalfD(D))

\* the trailing [::-1] is missing: the bottom half in scan order
BottomRevScanOrder(D) == DropFirst(MeshRavel(D, HalfD(D), D), HalfD(D))

\* the first D2 entries (centre row up to the centre pixel) are not dropped
BottomRevKeepAll(D) == Reverse(MeshRavel(D, HalfD(D), D))

BottomRev(D) == Reverse(DropFirst(MeshRavel(D, HalfD(D), D), HalfD(D)))

\* ------------------------------------------------------------ lattice
\* x0, x1 = meshgrid(linspace(-1,1,nx), linspace(-1,1,ny)); rows (x0, x1, 0)
LatticeCoords(D) ==
  [p \in 0..(D * D - 1) |-> << 2 * (p % D) - D, 2 * (p \div D) - D, 0 >>]

Neg3(row) == [k \in 1..Len(row) |-> IF k <= 3 THEN -row[k] ELSE row[k]]

\* row-vector times matrix: (p @ R)[j] = sum_i p[i] * R[i][j]
VecMat(p, R) ==
  [j \in 1..3 |-> p[1] * R[1][j] + p[2] * R[2][j] + p[3] * R[3][j]]

MatMul(A, B) == [i \in 1..3 |-> VecMat(A[i], B)]

Ident == << <<1, 0, 0>>, <<0, 1, 0>>, <<0, 0, 1>> >>
RotX  == << <<1, 0, 0>>, <<0, 0, -1>>, <<0, 1, 0>> >>
RotY  == << <<0, 0, 1>>, <<0, 1, 0>>, <<-1, 0, 0>> >>
Rots  == {Ident, RotX, RotY}

\* lattice @ rot
Rotate(lat, R) == [p \in DOMAIN lat |-> VecMat(lat[p], R)]

\* ------------------------------------------------------- coreDecoder
\* The learned coordinate -> (real, imag) network; its weights are free,
\* so the model draws it from a family of closed forms.
Decoders == {"sum", "herm", "herm2", "gen"}

RECURSIVE LatentSumFrom(_, _)
LatentSumFrom(row, k) ==
  IF k > Len(row) THEN 0 ELSE (k - 3) * row[k] + LatentSumFrom(row, k + 1)

LatentSum(row) == LatentSumFrom(row, 4)

CoreDecoder(dec, row) ==
  LET x == row[1]
      y == row[2]
      z == row[3]
      l == LatentSum(row)
  IN  CASE dec = "sum"  -> << x + y + z, 0 >>
        [] dec = "herm" -> << x * x + y * y + z * z + l, x + 2 * y + 3 * z >>
        [] dec = "herm2" -> << x * y - z * z + 2 * l, y - 2 * z >>
        [] OTHER        -> << x + 2 * y + 3 * z + 1 + l, x - y + 2 >>

\* the decoder's symmetry F(-p) = conj(F(p)) on a row
Hermitian(dec, row) ==
  /\ CoreDecoder(dec, Neg3(row))[1] = CoreDecoder(dec, row)[1]
  /\ CoreDecoder(dec, Neg3(row))[2] = -CoreDecoder(dec, row)[2]

\* --------------------------------------------- FTSliceDecoder.decode
\* the imaginary channel of the negated rows is left as evaluated
DecodeNoConj(dec, lattice) ==
  LET w   == [k \in DOMAIN lattice |-> lattice[k][3] > 0]
      neg == [k \in DOMAIN lattice |->
                IF w[k] THEN Neg3(lattice[k]) ELSE lattice[k]]
  IN  [lattice |-> neg,
       result  |-> [k \in DOMAIN lattice |-> CoreDecoder(dec, neg[k])]]

\* lattice: the tensor object handed in, as it is after the call
\* result : the returned tensor
Decode(dec, lattice) ==
  LET w   == [k \in DOMAIN lattice |-> lattice[k][3] > 0]
      neg == [k \in DOMAIN lattice |->
                IF w[k] THEN Neg3(lattice[k]) ELSE lattice[k]]
      raw == [k \in DOMAIN lattice |-> CoreDecoder(dec, neg[k])]
  IN  [lattice |-> neg,
       result  |-> [k \in DOMAIN lattice |->
                      IF w[k] THEN << raw[k][1], -raw[k][2] >> ELSE raw[k]]]

\* lattice[..., idx, :] with an index array: a fresh tensor
Gather(lattice, idx) == [k \in 0..(Len(idx) - 1) |-> lattice[idx[k + 1]]]

\* torch.empty: a position no assignment reaches holds whatever was in
\* memory; g is that content
Garbage == {-99, 99}

GarbageFor(writes) ==
  IF \E p \in DOMAIN writes : writes[p] = 0 THEN Garbage ELSE {0}

Uninit(image, writes, g) ==
  [p \in DOMAIN image |-> IF writes[p] = 0 THEN g ELSE image[p]]

Count(idx, p) == Cardinality({k \in 1..Len(idx) : idx[k] = p})

LastPos(idx, p) ==
  CHOOSE k \in 1..Len(idx) :
    idx[k] = p /\ \A m \in 1..Len(idx) : idx[m] = p => m <= k

\* -------------------------------------------- FTSliceDecoder.forward
FTForward(dec, lattice, ae, tp, br) ==
  LET n     == Cardinality(DOMAIN lattice)
      sub   == Gather(lattice, ae)
      d     == Decode(dec, sub)
      th    == d.result
      hart  == [k \in 1..Len(ae) |-> th[k - 1][1] - th[k - 1][2]]
      inRng == \A k \in 1..Len(tp) : tp[k] < Len(ae)
      conj  == [k \in 1..Len(tp) |-> th[tp[k]][1] + th[tp[k]][2]]
      shape == Len(tp) = Len(br) \/ Len(tp) = 1
      rhs(k) == IF Len(tp) = Len(br) THEN conj[k] ELSE conj[1]
  IN  IF ~inRng THEN
        [err |-> "IndexError", lattice |-> lattice,
         image |-> << >>, writes |-> << >>]
      ELSE IF ~shape THEN
        [err |-> "RuntimeError", lattice |-> lattice,
         image |-> << >>, writes |-> << >>]
      ELSE
        [err |-> "none", lattice |-> lattice,
         image |-> [p \in 0..(n - 1) |->
                      IF p \in Range(br) THEN rhs(LastPos(br, p))
                      ELSE IF p \in Range(ae) THEN hart[LastPos(ae, p)]
                      ELSE 0],
         writes |-> [p \in 0..(n - 1) |-> Count(ae, p) + Count(br, p)]]

\* -------------------------------- FTSliceDecoder.forward_symmetric
\* the mirrored half read from np.arange(c,0,-1): the centre value is reused
ForwardSymmetricFromCenter(dec, lattice, c) ==
  LET n     == Cardinality(DOMAIN lattice)
      m     == IF c + 1 < n THEN c + 1 ELSE n
      view  == [k \in 0..(m - 1) |-> lattice[k]]
      d     == Decode(dec, view)
      th    == d.result
      after == [k \in 0..(n - 1) |-> IF k < m THEN d.lattice[k] ELSE lattice[k]]
      rev   == ArangeDown(c, 0)
  IN  [err |-> "none", lattice |-> after,
       image |-> [p \in 0..(n - 1) |->
                    IF p < m THEN th[p][1] - th[p][2]
                    ELSE th[rev[p - m + 1]][1] + th[rev[p - m + 1]][2]],
       writes |-> [p \in 0..(n - 1) |-> 1]]

\* lattice[..., 0:c+1, :] is a view: decode's in-place negation lands in
\* the caller's tensor.
ForwardSymmetric(dec, lattice, c) ==
  LET n     == Cardinality(DOMAIN lattice)
      m     == IF c + 1 < n THEN c + 1 ELSE n
      view  == [k \in 0..(m - 1) |-> lattice[k]]
      d     == Decode(dec, view)
      th    == d.result
      after == [k \in 0..(n - 1) |-> IF k < m THEN d.lattice[k] ELSE lattice[k]]
      first == Arange(0, m, 1)
      secnd == Arange(c + 1, n, 1)
      rev   == ArangeDown(c - 1, -1)
      inRng == \A k \in 1..Len(rev) : rev[k] < m
      conj  == [k \in 1..Len(rev) |-> th[rev[k]][1] + th[rev[k]][2]]
      shape == Len(rev) = Len(secnd) \/ Len(rev) = 1
      rhs(k) == IF Len(rev) = Len(secnd) THEN conj[k] ELSE conj[1]
  IN  IF ~inRng THEN
        [err |-> "IndexError", lattice |-> after,
         image |-> << >>, writes |-> << >>]
      ELSE IF ~shape THEN
        [err |-> "RuntimeError", lattice |-> after,
         image |-> << >>, writes |-> << >>]
      ELSE
        [err |-> "none", lattice |-> after,
         image |-> [p \in 0..(n - 1) |->
                      IF p \in Range(secnd) THEN rhs(LastPos(secnd, p))
                      ELSE IF p \in Range(first) THEN th[p][1] - th[p][2]
                      ELSE 0],
         writes |-> [p \in 0..(n - 1) |-> Count(first, p) + Count(secnd, p)]]

\* ------------------------------------------------------ HetVAE.cat_z
\* coords: B x N x 3, z: B x zdim.  z.view(B,1,1) needs B*zdim == B.
CatZ(cs, z) ==
  LET B     == Cardinality(DOMAIN cs)
      zd    == Len(z[0])
      numel == B * zd
  IN  IF \E b \in DOMAIN cs : \E p \in DOMAIN cs[b] : Len(cs[b][p]) # 3
        THEN [err |-> "AssertionError", out |-> << >>]
      ELSE IF numel # B
        THEN [err |-> "RuntimeError", out |-> << >>]
      ELSE [err |-> "none",
            out |-> [b \in DOMAIN cs |->
                       [p \in DOMAIN cs[b] |-> cs[b][p] \o << z[b][1] >>]]]

\* torch.cat((x, z), dim=-1) with z holding one code row per pixel
CatRows(x, code) == [p \in DOMAIN x |-> x[p] \o code]

\* ------------------------------------------------- lie_tools.expmap
\* Rodrigues' formula R = I + sin(t) K + (1 - cos(t)) K^2 for tangent
\* vectors along one axis, the angle counted in quarter turns.
Skew(u) == << <<0, -u[3], u[2]>>, <<u[3], 0, -u[1]>>, <<-u[2], u[1], 0>> >>

Sin4(k) == CASE k % 4 = 0 -> 0 [] k % 4 = 1 -> 1 [] k % 4 = 2 -> 0 [] OTHER -> -1
Cos4(k) == CASE k % 4 = 0 -> 1 [] k % 4 = 1 -> 0 [] k % 4 = 2 -> -1 [] OTHER -> 0

Sign(x) == IF x > 0 THEN 1 ELSE IF x < 0 THEN -1 ELSE 0

ExpMap(w) ==
  LET t  == Abs(w[1]) + Abs(w[2]) + Abs(w[3])
      u  == << Sign(w[1]), Sign(w[2]), Sign(w[3]) >>
      K  == Skew(u)
      K2 == MatMul(K, K)
  IN  [i \in 1..3 |-> [j \in 1..3 |->
         Ident[i][j] + Sin4(t) * K[i][j] + (1 - Cos4(t)) * K2[i][j]]]

\* ------------------------------------- SO3reparameterize.sampleSO3
\* eps is the draw of torch.randn_like(z_std)
sampleSO3(trainingFlag, z_mu, z_std, eps) ==
  IF ~trainingFlag THEN << z_mu, z_std >>
  ELSE LET w_eps == [k \in 1..3 |-> eps[k] * z_std[k]]
       IN  << MatMul(z_mu, ExpMap(w_eps)), w_eps >>

\* ------------------------------------------------------- eval_volume
\* the shift done in place (model.lattice += ...)
ShiftZInPlace(lattice, dz) ==
  LET x == [p \in DOMAIN lattice |->
              << lattice[p][1], lattice[p][2], lattice[p][3] + dz >>]
  IN  [lattice |-> x, x |-> x]

\* line 65: model.lattice + [0,0,dz] builds a new tensor
ShiftZ(lattice, dz) ==
  [lattice |-> lattice,
   x |-> [p \in DOMAIN lattice |->
            << lattice[p][1], lattice[p][2], lattice[p][3] + dz >>]]

\* slices i..nz-1 of the loop over np.linspace(-1,1,nz,endpoint=False)
RECURSIVE EvalSlices(_, _, _, _, _, _, _, _)
EvalSlices(dec, lattice, code, ae, tp, br, i, nz) ==
  IF i >= nz THEN [err |-> "none", lattice |-> lattice, vol |-> << >>]
  ELSE LET s == ShiftZ(lattice, 2 * i - nz)
           y == FTForward(dec, CatRows(s.x, code), ae, tp, br)
       IN  IF y.err # "none"
             THEN [err |-> y.err, lattice |-> s.lattice, vol |-> << >>]
           ELSE LET r == EvalSlices(dec, s.lattice, code, ae, tp, br, i + 1, nz)
                IN  [err |-> r.err, lattice |-> r.lattice,
                     vol |-> IF r.err = "none"
                               THEN << [image |-> y.image, writes |-> y.writes] >>
                                      \o r.vol
                             ELSE << >>]

eval_volume(trainingFlag, dec, lattice, code, ae, tp, br, nz) ==
  IF trainingFlag
    THEN [err |-> "AssertionError", lattice |-> lattice, vol |-> << >>]
  ELSE EvalSlices(dec, lattice, code, ae, tp, br, 0, nz)

\* ------------------------------------------------------------ inputs
Tensor(seq) == [k \in 0..(Len(seq) - 1) |-> seq[k + 1]]

\* latent codes of a model with the given zdim
Codes(zd) == {[k \in 1..zd |-> 0], [k \in 1..zd |-> k]}

\* coordinate batches handed to decode
Pts == { <<0, 0, 1>>, <<1, -2, 2>>, <<0, 0, -1>>, <<-1, 2, -2>>, <<2, 1, 0>> }

DecodeBufs(zd) ==
  LET code == [k \in 1..zd |-> k]
  IN  {Tensor(<< p \o code >>) : p \in Pts}
        \cup {Tensor(<< <<1, -2, 2>> \o code, <<2, 1, 0>> \o code,
                        <<-1, 2, -2>> \o code >>)}

\* a line of 2c+1 coordinates through the origin, centre at index c
Dirs == { <<1, 0, 1>>, <<0, 2, -1>>, <<1, 1, 0>> }

Line(v, c, code) ==
  [k \in 0..(2 * c) |-> << (k - c) * v[1], (k - c) * v[2], (k - c) * v[3] >> \o code]

Stds == { <<1, 1, 1>>, <<2, 1, 3>> }
Epss == { <<0, 0, 0>>, <<1, 0, 0>>, <<0, 0, -1>> }
Mus  == {Ident, RotX}

\* ------------------------------------------------------------- state
VARIABLES
  D, zdim,           \* the constructed model's side length and latent size
  coords,            \* Lattice coordinates (model.lattice)
  center, extra, all_eval, top, bottom_rev,   \* FTSliceDecoder index sets
  training,          \* nn.Module.training of the model and its submodules
  op,                \* the last call made
  err,               \* the exception it raised, "none" if it returned
  dec,               \* the decoder weights it ran with
  arg,               \* its argument before the call
  argAfter,          \* the same tensor object after the call
  out,               \* its return value
  writes,            \* how often each output position was assigned
  cat,               \* the output of cat_z within HetVAE.forward
  prev,              \* the call before it, kept for decode and sampleSO3
  run                \* main of bnb_het.py: its position, counters and last step

model == << D, zdim, coords, center, extra, all_eval, top, bottom_rev >>
call  == << op, err, dec, arg, argAfter, out, writes, cat, prev >>
vars  == << D, zdim, coords, center, extra, all_eval, top, bottom_rev,
            training, op, err, dec, arg, argAfter, out, writes, cat, prev,
            run >>

NoCall == [op |-> "none"]

NoRun == [pc |-> "none"]

Init ==
  /\ D = 0 /\ zdim = 0 /\ coords = << >>
  /\ center = 0 /\ extra = << >> /\ all_eval = << >>
  /\ top = << >> /\ bottom_rev = << >>
  /\ training = TRUE
  /\ op = "new" /\ err = "none" /\ dec = "none"
  /\ arg = << >> /\ argAfter = << >> /\ out = << >>
  /\ writes = << >> /\ cat = << >> /\ prev = NoCall
  /\ run = NoRun

\* HetVAE.__init__ with FTSliceDecoder.__init__ on a d x d lattice
Construct(d, zd) ==
  /\ op = "new"
  /\ D' = d /\ zdim' = zd
  /\ coords' = LatticeCoords(d)
  /\ center' = Center(d)
  /\ extra' = Extra(d)
  /\ all_eval' = AllEval(d)
  /\ top' = Top(d)
  /\ bottom_rev' = BottomRev(d)
  /\ training' = TRUE
  /\ op' = "init"
  /\ UNCHANGED << err, dec, arg, argAfter, out, writes, cat, prev, run >>

\* model.train()
Train ==
  /\ op # "new"
  /\ training' = TRUE
  /\ UNCHANGED << model, call, run >>

\* model.eval()
Eval ==
  /\ op # "new"
  /\ training' = FALSE
  /\ UNCHANGED << model, call, run >>

Keep(o) ==
  IF op = o THEN [op |-> op, dec |-> dec, arg |-> arg, out |-> out]
  ELSE NoCall

\* FTSliceDecoder.decode on a caller's tensor
DecodeCall(buf, dc) ==
  /\ op # "new"
  /\ LET d == Decode(dc, buf)
     IN  /\ arg' = buf
         /\ argAfter' = d.lattice
         /\ out' = d.result
  /\ op' = "decode" /\ err' = "none" /\ dec' = dc
  /\ writes' = << >> /\ cat' = << >>
  /\ prev' = Keep("decode")
  /\ UNCHANGED << model, training, run >>

\* FTSliceDecoder.forward_symmetric on a caller's line of 2c+1 coordinates
ForwardSymmetricCall(buf, c, dc) ==
  /\ op # "new"
  /\ LET r == ForwardSymmetric(dc, buf, c)
     IN  /\ arg' = [lattice |-> buf, c |-> c]
         /\ argAfter' = [lattice |-> r.lattice, c |-> c]
         /\ \E g \in GarbageFor(r.writes) : out' = Uninit(r.image, r.writes, g)
         /\ writes' = r.writes
         /\ err' = r.err
  /\ op' = "forward_symmetric" /\ dec' = dc
  /\ cat' = << >> /\ prev' = NoCall
  /\ UNCHANGED << model, training, run >>

\* FTSliceDecoder.forward on a caller's D*D x (3+zdim) tensor
DecoderForward(lat, dc) ==
  /\ op # "new"
  /\ LET r == FTForward(dc, lat, all_eval, top, bottom_rev)
     IN  /\ arg' = lat
         /\ argAfter' = r.lattice
         /\ \E g \in GarbageFor(r.writes) : out' = Uninit(r.image, r.writes, g)
         /\ writes' = r.writes
         /\ err' = r.err
  /\ op' = "forward" /\ dec' = dc
  /\ cat' = << >> /\ prev' = NoCall
  /\ UNCHANGED << model, training, run >>

\* HetVAE.forward(rot, z) on a batch
HetVAEForward(rots, zs, dc) ==
  /\ op # "new"
  /\ LET x == [b \in DOMAIN rots |-> Rotate(coords, rots[b])]
         c == CatZ(x, zs)
         y == [b \in DOMAIN rots |->
                 FTForward(dc, c.out[b], all_eval, top, bottom_rev)]
     IN  /\ arg' = [rot |-> rots, z |-> zs]
         /\ argAfter' = [rot |-> rots, z |-> zs]
         /\ cat' = c.out
         /\ IF c.err # "none"
              THEN err' = c.err /\ out' = << >> /\ writes' = << >>
            ELSE IF y[0].err # "none"
              THEN err' = y[0].err /\ out' = << >> /\ writes' = << >>
            ELSE /\ err' = "none"
                 /\ \E g \in GarbageFor(y[0].writes) :
                      out' = [b \in DOMAIN rots |->
                                Uninit(y[b].image, y[b].writes, g)]
                 /\ writes' = y[0].writes
  /\ op' = "hetvae_forward" /\ dec' = dc
  /\ prev' = NoCall
  /\ UNCHANGED << model, training, run >>

\* VAE.forward: sampleSO3, lattice @ rot, one-channel decoder
VAEForward(z_mu, z_std, eps, dc) ==
  /\ op # "new"
  /\ LET s == sampleSO3(training, z_mu, z_std, eps)
         x == Rotate(coords, s[1])
     IN  /\ arg' = [z_mu |-> z_mu, z_std |-> z_std, eps |-> eps]
         /\ argAfter' = [z_mu |-> z_mu, z_std |-> z_std, eps |-> eps]
         /\ out' = [y_hat |-> [p \in DOMAIN x |-> CoreDecoder(dc, x[p])[1]],
                    z_mu |-> z_mu, z_std |-> z_std, w_eps |-> s[2]]
  /\ op' = "vae_forward" /\ err' = "none" /\ dec' = dc
  /\ writes' = << >> /\ cat' = << >> /\ prev' = NoCall
  /\ UNCHANGED << model, training, run >>

\* eval_volume(model, nz, ny, nx, zval, rnorm) with nz = ny = nx = D
EvalVolume(code, dc) ==
  /\ op # "new"
  /\ LET r == eval_volume(training, dc, coords, code,
                          all_eval, top, bottom_rev, D)
     IN  /\ coords' = r.lattice
         /\ \E g \in UNION {GarbageFor(r.vol[i].writes) : i \in DOMAIN r.vol} \cup {0} :
              out' = [i \in DOMAIN r.vol |->
                        Uninit(r.vol[i].image, r.vol[i].writes, g)]
         /\ err' = r.err
  /\ arg' = code /\ argAfter' = code
  /\ op' = "eval_volume" /\ dec' = dc
  /\ writes' = << >> /\ cat' = << >> /\ prev' = NoCall
  /\ UNCHANGED << D, zdim, center, extra, all_eval, top, bottom_rev, training,
                  run >>

\* SO3reparameterize.__init__
ConstructSO3 ==
  /\ op = "new"
  /\ training' = TRUE
  /\ op' = "init"
  /\ UNCHANGED << model, err, dec, arg, argAfter, out, writes, cat, prev, run >>

\* SO3reparameterize.sampleSO3(z_mu, z_std)
SampleCall(z_mu, z_std, eps) ==
  /\ op # "new"
  /\ arg' = [z_mu |-> z_mu, z_std |-> z_std, eps |-> eps, training |-> training]
  /\ argAfter' = arg'
  /\ out' = sampleSO3(training, z_mu, z_std, eps)
  /\ op' = "sampleSO3" /\ err' = "none" /\ dec' = "none"
  /\ writes' = << >> /\ cat' = << >>
  /\ prev' = Keep("sampleSO3")
  /\ UNCHANGED << model, training, run >>

\* batches of B rotations / codes
RotBatches(B) ==
  {[b \in 0..(B - 1) |-> IF b % 2 = 0 THEN R ELSE RotX] : R \in {Ident, RotY}}

CodeBatches(B, zd) ==
  {[b \in 0..(B - 1) |-> c] : c \in Codes(zd)}
    \cup {[b \in 0..(B - 1) |-> [k \in 1..zd |-> (b + k) % 2]]}

\* the slice decoder: construction and image reconstruction
Next ==
  \/ \E d \in 1..MaxD, zd \in 1..MaxZdim : Construct(d, zd)
  \/ \E v \in Dirs, c \in 0..MaxC, dc \in Decoders :
        ForwardSymmetricCall(Line(v, c, [k \in 1..zdim |-> k]), c, dc)
  \/ \E R \in Rots, dc \in Decoders :
        DecoderForward(CatRows(Rotate(LatticeCoords(D), R),
                               [k \in 1..zdim |-> k]), dc)

Spec == Init /\ [][Next]_vars

\* the slice decoder: decode on the caller's coordinates
NextDecode ==
  \/ \E zd \in 1..MaxZdim : Construct(2, zd)
  \/ \E buf \in DecodeBufs(zdim), dc \in Decoders : DecodeCall(buf, dc)
  \/ \E v \in Dirs, c \in 0..MaxC, dc \in Decoders :
        ForwardSymmetricCall(Line(v, c, [k \in 1..zdim |-> k]), c, dc)

SpecDecode == Init /\ [][NextDecode]_vars

\* the composed model: forward evaluations under train()/eval()
NextModel ==
  \/ \E d \in 1..MaxD, zd \in 1..MaxZdim : Construct(d, zd)
  \/ Train
  \/ Eval
  \/ \E dc \in {"herm", "gen"} :
        DecoderForward(CatRows(Rotate(LatticeCoords(D), RotX),
                               [k \in 1..zdim |-> k]), dc)
  \/ \E B \in 1..MaxB :
        \E rots \in RotBatches(B), zs \in CodeBatches(B, zdim) :
           HetVAEForward(rots, zs, "gen")
  \/ \E eps \in Epss : VAEForward(RotX, <<2, 1, 3>>, eps, "gen")
  \/ \E code \in Codes(zdim) : EvalVolume(code, "gen")

SpecModel == Init /\ [][NextModel]_vars

\* the reparameterizer
NextSO3 ==
  \/ ConstructSO3
  \/ Train
  \/ Eval
  \/ \E z_mu \in Mus, z_std \in Stds, eps \in Epss : SampleCall(z_mu, z_std, eps)

SpecSO3 == Init /\ [][NextSO3]_vars

\* =================================================================
\* main of bnb_het.py: the training loop
\* =================================================================
\* float32 values by class: "fin" finite, "big" finite with exp(x)
\* overflowing, "pinf", "ninf", "nan"
Floats == {"fin", "big", "pinf", "ninf", "nan"}

FNeg(x) ==
  CASE x = "pinf" -> "ninf" [] x = "ninf" -> "pinf" [] x = "nan" -> "nan"
    [] OTHER -> "fin"

FAdd(x, y) ==
  IF x = "nan" \/ y = "nan" THEN "nan"
  ELSE IF x = "pinf" THEN (IF y = "ninf" THEN "nan" ELSE "pinf")
  ELSE IF x = "ninf" THEN (IF y = "pinf" THEN "nan" ELSE "ninf")
  ELSE IF y \in {"pinf", "ninf"} THEN y
  ELSE "fin"

\* x.pow(2)
FSq(x) ==
  CASE x \in {"pinf", "ninf"} -> "pinf" [] x = "nan" -> "nan" [] OTHER -> "fin"

\* x.exp()
FExp(x) ==
  CASE x \in {"big", "pinf"} -> "pinf" [] x = "nan" -> "nan" [] OTHER -> "fin"

\* line 154: kld = -0.5 * mean(1 + logvar - mu^2 - exp(logvar))
Kld(mu, logvar) ==
  FNeg(FAdd(FAdd(FAdd("fin", logvar), FNeg(FSq(mu))), FNeg(FExp(logvar))))

\* torch.isnan
IsNan(x) == x = "nan"

NoStep == [what |-> "none", training |-> TRUE, kld |-> "fin"]

Did(what, flag, k) == [what |-> what, training |-> flag, kld |-> k]

\* lines 108-122: build the model, load a checkpoint or start at epoch 0
MainStart(load, ckEpoch, nEpochs, nBatches, ckpt) ==
  /\ op = "new"
  /\ D' = 2 /\ zdim' = 1
  /\ coords' = LatticeCoords(2)
  /\ center' = Center(2)
  /\ extra' = Extra(2)
  /\ all_eval' = AllEval(2)
  /\ top' = Top(2)
  /\ bottom_rev' = BottomRev(2)
  /\ training' = TRUE
  /\ op' = "main"
  /\ run' = [pc |-> "epoch",
             epoch |-> IF load THEN ckEpoch + 1 ELSE 0,
             ran |-> FALSE,
             num_epochs |-> nEpochs, num_batches |-> nBatches,
             checkpoint |-> ckpt, batch |-> 0,
             kld |-> "fin", last |-> NoStep]
  /\ UNCHANGED << err, dec, arg, argAfter, out, writes, cat, prev >>

\* line 126: for epoch in range(start_epoch, num_epochs)
MainEpoch ==
  /\ run.pc = "epoch"
  /\ run' = IF run.epoch < run.num_epochs
              THEN [run EXCEPT !.pc = "batch", !.batch = 0, !.ran = TRUE]
              ELSE [run EXCEPT !.pc = "final"]
  /\ UNCHANGED << model, training, call >>

\* line 133: for minibatch_i in np.array_split(...)
MainBatch ==
  /\ run.pc = "batch"
  /\ run' = IF run.batch < run.num_batches
              THEN [run EXCEPT !.pc = "encode"]
              ELSE [run EXCEPT !.pc = "ckpt"]
  /\ UNCHANGED << model, training, call >>

\* lines 141-142: model.encode(y), model.reparameterize(mu, logvar)
MainEncode(mu, logvar) ==
  /\ run.pc = "encode"
  /\ run' = [run EXCEPT !.pc = "eval", !.kld = Kld(mu, logvar),
                        !.last = Did("reparameterize", training, "fin")]
  /\ UNCHANGED << model, training, call >>

\* line 145: model.eval()
MainEval ==
  /\ run.pc = "eval"
  /\ training' = FALSE
  /\ run' = [run EXCEPT !.pc = "opt_theta", !.last = NoStep]
  /\ UNCHANGED << model, call >>

\* line 146: bnb.opt_theta(y, z); the pose search is free to leave the
\* module in either mode
MainOptTheta(flagAfter) ==
  /\ run.pc = "opt_theta"
  /\ training' = flagAfter
  /\ run' = [run EXCEPT !.pc = "train",
                        !.last = Did("opt_theta", training, "fin")]
  /\ UNCHANGED << model, call >>

\* the model.train() after the pose search left out
MainTrainSkipped ==
  /\ run.pc = "train"
  /\ training' = training
  /\ run' = [run EXCEPT !.pc = "forward", !.last = NoStep]
  /\ UNCHANGED << model, call >>

\* line 147: model.train()
MainTrain ==
  /\ run.pc = "train"
  /\ training' = TRUE
  /\ run' = [run EXCEPT !.pc = "forward", !.last = NoStep]
  /\ UNCHANGED << model, call >>

\* lines 150-160: model(rot, z), the losses and kld
MainForward ==
  /\ run.pc = "forward"
  /\ run' = [run EXCEPT !.pc = "check",
                        !.last = Did("forward", training, run.kld)]
  /\ UNCHANGED << model, training, call >>

\* lines 162-165: if torch.isnan(kld): raise RuntimeError
MainCheck ==
  /\ run.pc = "check"
  /\ IF IsNan(run.kld)
       THEN /\ run' = [run EXCEPT !.pc = "aborted", !.last = NoStep]
            /\ err' = "RuntimeError"
       ELSE /\ run' = [run EXCEPT !.pc = "step", !.last = NoStep]
            /\ err' = err
  /\ UNCHANGED << model, training, op, dec, arg, argAfter, out, writes, cat,
                  prev >>

\* lines 167-169: loss.backward(), optim.step(), optim.zero_grad()
MainStep ==
  /\ run.pc = "step"
  /\ run' = [run EXCEPT !.pc = "batch", !.batch = run.batch + 1,
                        !.last = Did("optim.step", training, run.kld)]
  /\ UNCHANGED << model, training, call >>

\* line 181: if args.checkpoint and epoch % args.checkpoint == 0
MainCheckpoint ==
  /\ run.pc = "ckpt"
  /\ IF run.checkpoint # 0 /\ run.epoch % run.checkpoint = 0
       THEN /\ training' = FALSE                         \* line 182
            /\ run' = [run EXCEPT !.pc = "ckpt_volume", !.last = NoStep]
       ELSE /\ training' = training
            /\ run' = [run EXCEPT !.pc = "epoch", !.epoch = run.epoch + 1,
                                  !.last = NoStep]
  /\ UNCHANGED << model, call >>

\* lines 183-191: eval_volume, the two writes, model.train()
MainCheckpointVolume(code) ==
  /\ run.pc = "ckpt_volume"
  /\ LET r == eval_volume(training, "gen", coords, code,
                          all_eval, top, bottom_rev, D)
     IN  /\ coords' = r.lattice
         /\ err' = r.err
         /\ IF r.err = "none"
              THEN /\ training' = TRUE
                   /\ run' = [run EXCEPT !.pc = "epoch",
                                         !.epoch = run.epoch + 1,
                                         !.last = Did("eval_volume", training, "fin")]
              ELSE /\ training' = training
                   /\ run' = [run EXCEPT !.pc = "aborted",
                                         !.last = Did("eval_volume", training, "fin")]
  /\ UNCHANGED << D, zdim, center, extra, all_eval, top, bottom_rev,
                  op, dec, arg, argAfter, out, writes, cat, prev >>

\* lines 194-202: model.eval(), eval_volume on z_accum, the two writes;
\* z_accum is unbound when the loop body never ran
MainFinal(code) ==
  /\ run.pc = "final"
  /\ training' = FALSE
  /\ IF ~run.ran
       THEN /\ err' = "NameError"
            /\ coords' = coords
            /\ run' = [run EXCEPT !.pc = "aborted", !.last = NoStep]
       ELSE LET r == eval_volume(FALSE, "gen", coords, code,
                                 all_eval, top, bottom_rev, D)
            IN  /\ coords' = r.lattice
                /\ err' = r.err
                /\ run' = [run EXCEPT
                             !.pc = IF r.err = "none" THEN "done" ELSE "aborted",
                             !.last = Did("eval_volume", FALSE, "fin")]
  /\ UNCHANGED << D, zdim, center, extra, all_eval, top, bottom_rev,
                  op, dec, arg, argAfter, out, writes, cat, prev >>

\* the encoder's outputs of one minibatch, by class
MuClasses == {"fin", "pinf", "nan"}
LogvarClasses == {"fin", "big", "ninf", "nan"}

NextMain ==
  \/ \E load \in BOOLEAN, ckEpoch \in 0..1, nEpochs \in 0..MaxEpochs,
        nBatches \in 1..MaxBatches, ckpt \in 0..MaxCheckpoint :
        /\ (~load => ckEpoch = 0)
        /\ MainStart(load, ckEpoch, nEpochs, nBatches, ckpt)
  \/ MainEpoch
  \/ MainBatch
  \/ \E mu \in MuClasses, logvar \in LogvarClasses : MainEncode(mu, logvar)
  \/ MainEval
  \/ \E f \in BOOLEAN : MainOptTheta(f)
  \/ MainTrain
  \/ MainForward
  \/ MainCheck
  \/ MainStep
  \/ MainCheckpoint
  \/ \E code \in Codes(zdim) : MainCheckpointVolume(code)
  \/ \E code \in Codes(zdim) : MainFinal(code)

SpecMain == Init /\ [][NextMain]_vars


\* =================================================================
\* Properties
\* =================================================================
Pixels == 0..(D * D - 1)

\* real - imag of the coreDecoder evaluated at the row itself
Direct(dc, row) == CoreDecoder(dc, row)[1] - CoreDecoder(dc, row)[2]

\* C1: for every even D >= 2 the index sets all_eval and bottom_rev are
\* disjoint and together are exactly 0..D*D-1, top and bottom_rev have the
\* same length, D = 4 gives center = 10, and the two assignments of
\* forward write every pixel exactly once.
C1_IndexPartition ==
  (op # "new" /\ D % 2 = 0) =>
    /\ Range(all_eval) \cap Range(bottom_rev) = {}
    /\ Range(all_eval) \cup Range(bottom_rev) = Pixels
    /\ Len(top) = Len(bottom_rev)
    /\ (D = 4 => center = 10)
    /\ (op = "forward" =>
          /\ err = "none"
          /\ \A p \in Pixels : writes[p] = 1)

C1_Witness ==
  /\ op = "forward" /\ err = "none"
  /\ D = 4 /\ center = 10
  /\ Len(bottom_rev) = 4
  /\ \A p \in Pixels : writes[p] = 1

\* C2 as stated: with the coreDecoder real = sum of the coordinates,
\* imag = 0, forward returns at every pixel real - imag evaluated at that
\* pixel's own coordinate.
C2_SumDecoderDirect ==
  (op = "forward" /\ err = "none" /\ D % 2 = 0 /\ dec = "sum") =>
    \A p \in Pixels : out[p] = Direct(dec, arg[p])

\* C2 amended: for a coreDecoder with the symmetry the decoder exploits
\* (real(-p) = real(p), imag(-p) = -imag(p) at every lattice coordinate),
\* forward returns at every pixel real - imag evaluated at that pixel's
\* own coordinate.
C2_HermitianDirect ==
  (/\ op = "forward" /\ err = "none" /\ D % 2 = 0
   /\ \A p \in Pixels : Hermitian(dec, arg[p])) =>
    \A p \in Pixels : out[p] = Direct(dec, arg[p])

C2_Witness ==
  /\ op = "forward" /\ err = "none" /\ D = 4 /\ dec = "herm"
  /\ \A p \in Pixels : Hermitian(dec, arg[p])
  /\ \E p \in Pixels : arg[p][3] > 0 /\ out[p] # 0
  /\ \E k \in 1..Len(bottom_rev) : out[bottom_rev[k]] # out[top[k]]

\* C3: decode leaves the caller's coordinate array as it was, also when
\* the array is the slice forward_symmetric passes.
C3_CallerArrayUnchanged ==
  /\ (op = "decode" => argAfter = arg)
  /\ (op = "forward_symmetric" => argAfter.lattice = arg.lattice)

\* C4: sampleSO3 in eval mode returns the mean rotation and a zero tangent.
C4_EvalZeroTangent ==
  (op = "sampleSO3" /\ ~arg.training) =>
    out = << arg.z_mu, <<0, 0, 0>> >>

\* C5: no decoder with index sets for an odd side length is ever built.
C5_OddRejected ==
  op # "new" => D % 2 = 0

\* C6: for p with third component > 0, decode([-p]) has the real channel
\* of decode([p]) and the negated imaginary channel; rows with third
\* component <= 0 get the coreDecoder's output at the row itself.
C6_RoundTrip ==
  op = "decode" =>
    /\ \A k \in DOMAIN arg :
         arg[k][3] <= 0 => out[k] = CoreDecoder(dec, arg[k])
    /\ (prev.op = "decode" /\ prev.dec = dec) =>
         \A k \in DOMAIN prev.arg : \A m \in DOMAIN arg :
           (prev.arg[k][3] > 0 /\ arg[m] = Neg3(prev.arg[k])) =>
             /\ out[m][1] = prev.out[k][1]
             /\ out[m][2] = -prev.out[k][2]

C6_Witness ==
  /\ op = "decode" /\ prev.op = "decode" /\ prev.dec = dec /\ dec = "gen"
  /\ \E k \in DOMAIN prev.arg : \E m \in DOMAIN arg :
       /\ prev.arg[k][3] > 0 /\ arg[m] = Neg3(prev.arg[k])
       /\ out[m][2] # 0 /\ out[m][2] = -prev.out[k][2]

\* C7: for every zdim >= 1 cat_z succeeds and puts the whole code of image
\* b after every coordinate of image b, giving rows of 3 + zdim components.
C7_CatZAnyZdim ==
  (op = "hetvae_forward" /\ D % 2 = 0) =>
    /\ err = "none"
    /\ \A b \in DOMAIN arg.rot : \A p \in Pixels :
         /\ Len(cat[b][p]) = 3 + zdim
         /\ cat[b][p] = VecMat(coords[p], arg.rot[b]) \o arg.z[b]

\* C8: forward_symmetric on 2c+1 coordinates writes every position once,
\* image[k] = real[k] - imag[k] for k <= c and
\* image[c+m] = real[c-m] + imag[c-m] for 1 <= m <= c, with real and imag
\* decoded from coordinates 0..c only.
C8_PartialSymmetric ==
  op = "forward_symmetric" =>
    LET c  == arg.c
        th == Decode(dec, [k \in 0..c |-> arg.lattice[k]]).result
    IN  /\ err = "none"
        /\ DOMAIN out = 0..(2 * c)
        /\ \A p \in 0..(2 * c) : writes[p] = 1
        /\ \A k \in 0..c : out[k] = th[k][1] - th[k][2]
        /\ \A m \in 1..c : out[c + m] = th[c - m][1] + th[c - m][2]
        /\ \A k \in (c + 1)..(2 * c) : argAfter.lattice[k] = arg.lattice[k]

C8_Witness ==
  /\ op = "forward_symmetric" /\ err = "none" /\ arg.c = 2 /\ dec = "gen"
  /\ arg.lattice[0][3] > 0
  /\ out[3] # out[2] /\ out[4] # out[3]

\* C9: two sampleSO3 calls with the same mean, std and random draw return
\* the same pair whatever happened to the module between them.
C9_NoHiddenState ==
  (/\ op = "sampleSO3" /\ prev.op = "sampleSO3"
   /\ prev.arg.z_mu = arg.z_mu /\ prev.arg.z_std = arg.z_std
   /\ prev.arg.eps = arg.eps) =>
    out = prev.out

\* C10: after any sequence of forward evaluations the lattice coordinates
\* and the five index sets are as they were built.
C10_LatticeIndexFrozen ==
  op # "new" =>
    /\ coords = LatticeCoords(D)
    /\ center = Center(D)
    /\ extra = Extra(D)
    /\ all_eval = AllEval(D)
    /\ top = Top(D)
    /\ bottom_rev = BottomRev(D)

C10_Witness ==
  /\ op = "eval_volume" /\ err = "none" /\ D = 4
  /\ Len(out) = 4
  /\ coords = LatticeCoords(4)

\* C11 as stated: optim.step never runs in an iteration whose kld is NaN
\* or infinite; such an iteration has raised before.
C11_NoStepOnBadKld ==
  run.pc # "none" =>
    /\ (run.last.what = "optim.step" => run.last.kld = "fin")
    /\ (run.pc = "step" => run.kld = "fin")

\* C12: for even D, bottom_rev[k] is the point reflection of top[k] through
\* the centre pixel (row D-r, column D-c, the negated lattice coordinate),
\* top[k] lies before the centre so position top[k] of the decoder output
\* is the value decoded for pixel top[k], and forward writes into pixel
\* bottom_rev[k] real + imag of the value decoded at pixel top[k].
C12_MirrorPairs ==
  (op # "new" /\ D % 2 = 0) =>
    /\ Len(top) = Len(bottom_rev)
    /\ \A k \in 1..Len(top) :
         LET r == top[k] \div D
             c == top[k] % D
         IN  /\ bottom_rev[k] = (D - r) * D + (D - c)
             /\ coords[bottom_rev[k]] = Neg3(coords[top[k]])
             /\ top[k] < center
             /\ all_eval[top[k] + 1] = top[k]
             /\ (op = "forward" /\ err = "none") =>
                  LET v == Decode(dec, Tensor(<< arg[top[k]] >>)).result[0]
                  IN  /\ arg[bottom_rev[k]] = Neg3(arg[top[k]])
                      /\ out[bottom_rev[k]] = v[1] + v[2]

C12_Witness ==
  /\ op = "forward" /\ err = "none" /\ D = 4 /\ dec = "gen"
  /\ top = << 5, 6, 7, 9 >> /\ bottom_rev = << 15, 14, 13, 11 >>
  /\ arg[5][3] > 0
  /\ out[15] # out[5]

\* C13: in every run of main, opt_theta and eval_volume are entered only
\* in eval mode (the assertion of eval_volume never fails),
\* reparameterize, the decoder forward and optim.step run only in train
\* mode, and the model is in train mode when a minibatch begins.
C13_ModeProtocol ==
  run.pc # "none" =>
    /\ (run.last.what \in {"opt_theta", "eval_volume"} => ~run.last.training)
    /\ (run.last.what \in {"reparameterize", "forward", "optim.step"} =>
          run.last.training)
    /\ err # "AssertionError"
    /\ (run.pc \in {"encode", "forward", "check", "step"} => training)
    /\ (run.pc \in {"opt_theta", "ckpt_volume"} => ~training)

C13_Witness ==
  /\ run.pc = "encode" /\ run.epoch = 1 /\ training
  /\ run.last.what = "eval_volume" /\ ~run.last.training
  /\ err = "none"

====
